---------------------------- MODULE Spec2Model ----------------------------
(***************************************************************************)
(* State-machine model of the running bot in src/bot.py: the time codec    *)
(* (parse_time_to_seconds / format_time), the MAS (VMA) estimate, the      *)
(* in-memory maps profiles and training_log, and the command handlers that *)
(* read and write them.                                                    *)
(*                                                                         *)
(* Conventions.                                                            *)
(*  - A Python str is a sequence of one-character strings.                 *)
(*  - An optional field (None or a value) is <<>> or <<v>>.                *)
(*  - A Python float is an exact rational <<n, d>> in lowest terms with    *)
(*    d > 0 (the literal 0.92 is 23/25); rounding is not modelled.         *)
(*  - A dict is a function whose DOMAIN is the set of its keys.            *)
(*  - A call that raises returns [ok |-> FALSE, err |-> <exception>].      *)
(***************************************************************************)
EXTENDS Integers, Sequences, FiniteSets, TLC

----------------------------------------------------------------------------
(* Text: the characters the inputs of the model are written with.          *)

Digits == <<"0", "1", "2", "3", "4", "5", "6", "7", "8", "9">>

IsDigit(c) == \E i \in 1..10 : Digits[i] = c

DigitVal(c) == (CHOOSE i \in 1..10 : Digits[i] = c) - 1

IsSpace(c) == c = " "

RECURSIVE LStrip(_)
LStrip(s) == IF s # <<>> /\ IsSpace(Head(s)) THEN LStrip(Tail(s)) ELSE s

RECURSIVE RStrip(_)
RStrip(s) ==
    IF s # <<>> /\ IsSpace(s[Len(s)]) THEN RStrip(SubSeq(s, 1, Len(s) - 1)) ELSE s

\* str.strip(): leading and trailing whitespace removed.
Strip(s) == RStrip(LStrip(s))

\* str.split(sep): the parts between the separators, empty parts kept.
RECURSIVE Split(_, _)
Split(s, sep) ==
    IF \A i \in 1..Len(s) : s[i] # sep
    THEN <<s>>
    ELSE LET k == CHOOSE i \in 1..Len(s) :
                      s[i] = sep /\ \A j \in 1..(i - 1) : s[j] # sep
         IN  <<SubSeq(s, 1, k - 1)>> \o Split(SubSeq(s, k + 1, Len(s)), sep)

RECURSIVE DigitsValue(_)
DigitsValue(s) ==
    IF s = <<>> THEN 0
    ELSE 10 * DigitsValue(SubSeq(s, 1, Len(s) - 1)) + DigitVal(s[Len(s)])

\* int(text): surrounding whitespace dropped, an optional sign, then one or
\* more decimal digits; anything else raises ValueError.
PyInt(text) ==
    LET t      == Strip(text)
        signed == t # <<>> /\ Head(t) \in {"-", "+"}
        body   == IF signed THEN Tail(t) ELSE t
    IN  IF body # <<>> /\ \A i \in 1..Len(body) : IsDigit(body[i])
        THEN [ok |-> TRUE,
              val |-> IF signed /\ Head(t) = "-"
                      THEN 0 - DigitsValue(body) ELSE DigitsValue(body)]
        ELSE [ok |-> FALSE, err |-> "ValueError"]

RECURSIVE NatToStr(_)
NatToStr(n) ==
    IF n < 10 THEN <<Digits[n + 1]>>
    ELSE NatToStr(n \div 10) \o <<Digits[(n % 10) + 1]>>

\* format spec "d".
FmtD(n) == IF n < 0 THEN <<"-">> \o NatToStr(0 - n) ELSE NatToStr(n)

\* format spec "02d": zero-padded to a width of two, the sign included.
Fmt02d(n) ==
    IF n < 0 THEN FmtD(n)
    ELSE IF n < 10 THEN <<"0">> \o NatToStr(n)
    ELSE NatToStr(n)

----------------------------------------------------------------------------
(* The time codec.                                                         *)

parse_time_to_seconds(time_str) ==
    LET parts == Split(Strip(time_str), ":")
    IN  IF Len(parts) \notin {2, 3}
        THEN [ok |-> FALSE, err |-> "ValueError"]
        ELSE LET h == IF Len(parts) = 2 THEN [ok |-> TRUE, val |-> 0]
                      ELSE PyInt(parts[1])
                 m == PyInt(parts[Len(parts) - 1])
                 s == PyInt(parts[Len(parts)])
             IN  IF h.ok /\ m.ok /\ s.ok
                 THEN [ok |-> TRUE, val |-> h.val * 3600 + m.val * 60 + s.val]
                 ELSE [ok |-> FALSE, err |-> "ValueError"]

\* format_time with m = seconds // 60, the hours not taken out.
format_time_minutes_unsplit(seconds) ==
    LET h == seconds \div 3600
        m == seconds \div 60
        s == seconds % 60
    IN  IF h > 0
        THEN FmtD(h) \o <<":">> \o Fmt02d(m) \o <<":">> \o Fmt02d(s)
        ELSE FmtD(m) \o <<":">> \o Fmt02d(s)

\* seconds is an int here (the value parse_time_to_seconds returned), so
\* int(round(seconds)) is seconds; // and % are the floor division and the
\* modulo of Python, as \div and % are.
format_time(seconds) ==
    LET h == seconds \div 3600
        m == (seconds % 3600) \div 60
        s == seconds % 60
    IN  IF h > 0
        THEN FmtD(h) \o <<":">> \o Fmt02d(m) \o <<":">> \o Fmt02d(s)
        ELSE FmtD(m) \o <<":">> \o Fmt02d(s)

----------------------------------------------------------------------------
(* Floats as exact rationals.                                              *)

None == <<>>

Some(v) == <<v>>

Abs(n) == IF n < 0 THEN 0 - n ELSE n

RECURSIVE Gcd(_, _)
Gcd(a, b) == IF b = 0 THEN a ELSE Gcd(b, a % b)

\* n/d in lowest terms with a positive denominator (d # 0).
Rat(n, d) ==
    LET g == Gcd(Abs(n), Abs(d))
        sgn == IF d < 0 THEN 0 - 1 ELSE 1
    IN  <<(sgn * n) \div g, (sgn * d) \div g>>

RatMul(a, b) == Rat(a[1] * b[1], a[2] * b[2])

RatIsZero(a) == a[1] = 0

RatPos(a) == a[1] > 0

RatLe(a, b) == a[1] * b[2] <= b[1] * a[2]

\* a / b; ZeroDivisionError when b is zero.
RatDiv(a, b) ==
    IF RatIsZero(b) THEN [ok |-> FALSE, err |-> "ZeroDivisionError"]
    ELSE [ok |-> TRUE, val |-> Rat(a[1] * b[2], a[2] * b[1])]


----------------------------------------------------------------------------
(* The performance formulas.                                               *)

\* hours = time_seconds / 3600; speed_kmh = 5.0 / hours; vma = speed_kmh / 0.92.
\* 5.0 / hours raises ZeroDivisionError when time_seconds is 0.
estimate_vma_from_5k(time_seconds) ==
    LET hours == Rat(time_seconds, 3600)
        speed_kmh == RatDiv(<<5, 1>>, hours)
    IN  IF speed_kmh.ok THEN RatDiv(speed_kmh.val, <<23, 25>>) ELSE speed_kmh

\* speed_m_per_s = (speed_kmh * 1000) / 3600; 1000 / speed_m_per_s.
pace_from_speed_kmh(speed_kmh) ==
    LET speed_m_per_s == RatDiv(RatMul(speed_kmh, <<1000, 1>>), <<3600, 1>>)
    IN  RatDiv(<<1000, 1>>, speed_m_per_s.val)

----------------------------------------------------------------------------
(* Profiles and the training log.                                          *)

\* RunnerProfile(): every field defaults to None.
RunnerProfile == [vma |-> None, five_k_time |-> None, max_hr |-> None]

\* d[k] = v on a dict.
SetItem(d, k, v) == [x \in (DOMAIN d) \cup {k} |-> IF x = k THEN v ELSE d[x]]

\* Truth value of an optional int (None and 0 are false).
TruthyInt(o) == o # None /\ o[1] # 0

\* Truth value of an optional float (None and 0.0 are false).
TruthyFloat(o) == o # None /\ ~RatIsZero(o[1])

\* What a handler sends with ctx.send, or the exception it raises: the
\* command and its arguments, the outcome (ok: the result message, error: a
\* message starting with the cross mark, info: the "no profile" notices,
\* raised: an exception left the handler), the values shown, and the
\* calculation calls made.
Reply(u, cmd, args, status, msg, data, calls) ==
    [user |-> u, cmd |-> cmd, args |-> args, status |-> status, msg |-> msg,
     data |-> data, calls |-> calls]

Call(fn, arg) == [fn |-> fn, arg |-> arg]

\* A handler's result: the maps after it, and what it answered.
Result(ps, tl, r) == [profiles |-> ps, training_log |-> tl, reply |-> r]

\* Lines 132-144. prof is the stored object when the user has one, so the
\* assignment of five_k_time at line 140 changes the stored profile at once;
\* a new RunnerProfile() is stored only at line 143. estimate_vma_from_5k is
\* called outside the try block: its ZeroDivisionError leaves the handler.
set5k_command(ps, tl, u, temps_5k) ==
    LET t == parse_time_to_seconds(temps_5k)
        args == <<temps_5k>>
    IN  IF ~t.ok
        THEN Result(ps, tl, Reply(u, "set5k", args, "error", t.err, <<>>, <<>>))
        ELSE
        LET stored == u \in DOMAIN ps
            prof0 == IF stored THEN ps[u] ELSE RunnerProfile
            prof1 == [prof0 EXCEPT !.five_k_time = Some(t.val)]
            est == estimate_vma_from_5k(t.val)
            calls == IF prof1.vma = None
                     THEN <<Call("estimate_vma_from_5k", t.val)>> ELSE <<>>
        IN  IF prof1.vma = None /\ ~est.ok
            THEN Result(IF stored THEN SetItem(ps, u, prof1) ELSE ps, tl,
                        Reply(u, "set5k", args, "raised", est.err, <<>>, calls))
            ELSE
            LET prof2 == IF prof1.vma = None
                         THEN [prof1 EXCEPT !.vma = Some(est.val)] ELSE prof1
            IN  Result(SetItem(ps, u, prof2), tl,
                       Reply(u, "set5k", args, "ok", "5 km enregistre",
                             <<temps_5k, prof2.vma>>, calls))

\* Lines 147-152. vma is the float discord.py converted the argument to.
setvma_command(ps, tl, u, vma) ==
    LET prof0 == IF u \in DOMAIN ps THEN ps[u] ELSE RunnerProfile
        prof1 == [prof0 EXCEPT !.vma = Some(vma)]
    IN  Result(SetItem(ps, u, prof1), tl,
               Reply(u, "setvma", <<vma>>, "ok", "VMA enregistree", <<vma>>, <<>>))

\* Lines 155-160.
setmaxhr_command(ps, tl, u, max_hr) ==
    LET prof0 == IF u \in DOMAIN ps THEN ps[u] ELSE RunnerProfile
        prof1 == [prof0 EXCEPT !.max_hr = Some(max_hr)]
    IN  Result(SetItem(ps, u, prof1), tl,
               Reply(u, "setmaxhr", <<max_hr>>, "ok", "FC max enregistree",
                     <<max_hr>>, <<>>))

\* Lines 163-179: the fields shown are the ones with a true value.
profil_command(ps, tl, u) ==
    IF u \notin DOMAIN ps
    THEN Result(ps, tl, Reply(u, "profil", <<>>, "info", "Aucun profil", <<>>, <<>>))
    ELSE
    LET prof == ps[u]
        shown == [five_k |-> IF TruthyInt(prof.five_k_time)
                             THEN Some(format_time(prof.five_k_time[1])) ELSE None,
                  vma |-> IF TruthyFloat(prof.vma) THEN prof.vma ELSE None,
                  max_hr |-> IF TruthyInt(prof.max_hr) THEN prof.max_hr ELSE None]
    IN  IF shown.five_k = None /\ shown.vma = None /\ shown.max_hr = None
        THEN Result(ps, tl, Reply(u, "profil", <<>>, "info", "Profil vide", <<>>, <<>>))
        ELSE Result(ps, tl, Reply(u, "profil", <<>>, "ok", "Ton profil", shown, <<>>))

\* "not prof.five_k_time" (lines 185 and 233): None or 0.
FiveKMissing(prof) == ~TruthyInt(prof.five_k_time)

\* vo2 with profiles.setdefault(ctx.author.id, RunnerProfile()) for its read.
vo2_command_setdefault(ps, tl, u) ==
    LET ps1 == IF u \in DOMAIN ps THEN ps ELSE SetItem(ps, u, RunnerProfile)
    IN  IF FiveKMissing(ps1[u])
        THEN Result(ps1, tl, Reply(u, "vo2", <<>>, "error",
                                   "Tu dois d'abord enregistrer un 5 km", <<>>, <<>>))
        ELSE Result(ps1, tl, Reply(u, "vo2", <<>>, "ok", "VO2max estimee", <<>>,
                                   <<Call("estimate_vo2max_from_5k",
                                          ps1[u].five_k_time[1])>>))

\* Lines 182-189. "not prof" is never true of a RunnerProfile object, so the
\* guard is: no profile, or five_k_time None or 0. The VO2max value itself (a
\* float polynomial) is not modelled, only the call.
vo2_command(ps, tl, u) ==
    IF u \notin DOMAIN ps \/ FiveKMissing(ps[u])
    THEN Result(ps, tl, Reply(u, "vo2", <<>>, "error", "Tu dois d'abord enregistrer un 5 km",
                              <<>>, <<>>))
    ELSE Result(ps, tl, Reply(u, "vo2", <<>>, "ok", "VO2max estimee", <<>>,
                              <<Call("estimate_vo2max_from_5k", ps[u].five_k_time[1])>>))

\* Lines 192-203. The estimate is stored with profiles[ctx.author.id].vma = vma.
vma_command(ps, tl, u) ==
    IF u \in DOMAIN ps /\ TruthyFloat(ps[u].vma)
    THEN Result(ps, tl, Reply(u, "vma", <<>>, "ok", "VMA enregistree/estimee",
                              <<ps[u].vma[1]>>, <<>>))
    ELSE IF u \in DOMAIN ps /\ TruthyInt(ps[u].five_k_time)
    THEN LET est == estimate_vma_from_5k(ps[u].five_k_time[1])
         IN  Result(SetItem(ps, u, [ps[u] EXCEPT !.vma = Some(est.val)]), tl,
                    Reply(u, "vma", <<>>, "ok", "VMA estimee a partir du 5 km",
                          <<est.val>>,
                          <<Call("estimate_vma_from_5k", ps[u].five_k_time[1])>>))
    ELSE Result(ps, tl, Reply(u, "vma", <<>>, "error",
                              "Tu dois d'abord mettre un 5 km ou une VMA", <<>>, <<>>))

\* The coefficients of paces_command (lines 213-221), as fractions.
PacesCoefs ==
    <<Rat(65, 100), Rat(72, 100), Rat(80, 100), Rat(90, 100), Rat(95, 100),
      Rat(102, 100), Rat(108, 100)>>

\* The coefficients of zonespace_command (lines 274-281).
ZonespaceCoefs ==
    <<Rat(60, 100), Rat(70, 100), Rat(80, 100), Rat(90, 100), Rat(95, 100),
      Rat(102, 100)>>

\* "not prof.vma" (lines 209 and 270): the VMA is None or 0.0.
VmaMissing(prof) == ~TruthyFloat(prof.vma)

\* The loop of lines 223-226 and 283-286 from its i-th coefficient on:
\* speed = vma * coef, then pace_from_speed_kmh(speed). paces and calls are
\* the paces computed and the calls made so far; a call that raises ends
\* the loop.
RECURSIVE PaceLoop(_, _, _, _, _)
PaceLoop(vma, coefs, i, paces, calls) ==
    IF i > Len(coefs) THEN [ok |-> TRUE, paces |-> paces, calls |-> calls]
    ELSE LET speed == RatMul(vma, coefs[i])
             pace == pace_from_speed_kmh(speed)
             called == Append(calls, Call("pace_from_speed_kmh", speed))
         IN  IF pace.ok
             THEN PaceLoop(vma, coefs, i + 1, Append(paces, pace.val), called)
             ELSE [ok |-> FALSE, err |-> pace.err, calls |-> called]

\* The body shared by paces_command and zonespace_command: the guard, the
\* loop, and the table sent when no call raised.
PaceTable(ps, tl, u, cmd, coefs) ==
    IF u \notin DOMAIN ps \/ VmaMissing(ps[u])
    THEN Result(ps, tl, Reply(u, cmd, <<>>, "error", "Il me faut ta VMA", <<>>, <<>>))
    ELSE
    LET loop == PaceLoop(ps[u].vma[1], coefs, 1, <<>>, <<>>)
    IN  IF loop.ok
        THEN Result(ps, tl, Reply(u, cmd, <<>>, "ok", "Tes allures", loop.paces,
                                  loop.calls))
        ELSE Result(ps, tl, Reply(u, cmd, <<>>, "raised", loop.err, <<>>,
                                  loop.calls))

\* Lines 206-227.
paces_command(ps, tl, u) == PaceTable(ps, tl, u, "paces", PacesCoefs)

\* Lines 267-287.
zonespace_command(ps, tl, u) == PaceTable(ps, tl, u, "zonespace", ZonespaceCoefs)

\* Lines 230-244. The predicted time (a float power) is not modelled, only
\* the call of riegel_predict_time.
predict_command(ps, tl, u, distance_km) ==
    IF u \notin DOMAIN ps \/ FiveKMissing(ps[u])
    THEN Result(ps, tl, Reply(u, "predict", <<distance_km>>, "error",
                              "Tu dois d'abord enregistrer un 5 km", <<>>, <<>>))
    ELSE IF ~RatPos(distance_km)
    THEN Result(ps, tl, Reply(u, "predict", <<distance_km>>, "error",
                              "Distance invalide", <<>>, <<>>))
    ELSE Result(ps, tl, Reply(u, "predict", <<distance_km>>, "ok", "Temps estime",
                              <<>>,
                              <<Call("riegel_predict_time",
                                     <<ps[u].five_k_time[1], distance_km>>)>>))

\* "not prof.max_hr" (line 250): None or 0.
MaxHrMissing(prof) == ~TruthyInt(prof.max_hr)

\* Lines 247-264. The zone bounds int(m * low) are float products and are not
\* modelled; the reply carries the max heart rate they are computed from.
zoneshr_command(ps, tl, u) ==
    IF u \notin DOMAIN ps \/ MaxHrMissing(ps[u])
    THEN Result(ps, tl, Reply(u, "zoneshr", <<>>, "error", "Il me faut ta FC max",
                              <<>>, <<>>))
    ELSE Result(ps, tl, Reply(u, "zoneshr", <<>>, "ok", "Tes zones cardio",
                              <<ps[u].max_hr[1]>>, <<Call("zones", ps[u].max_hr[1])>>))

\* Lines 413-423. desc is the text "<date> - <distance> km en <time>", kept
\* as its three parts; the entry appended is the pair (date_str, desc).
log_command(ps, tl, u, distance_km, temps, date_str) ==
    LET t == parse_time_to_seconds(temps)
        args == <<distance_km, temps>>
    IN  IF ~t.ok
        THEN Result(ps, tl, Reply(u, "log", args, "error", t.err, <<>>, <<>>))
        ELSE
        LET desc == [date |-> date_str, distance_km |-> distance_km,
                     time |-> format_time(t.val)]
            logs == IF u \in DOMAIN tl THEN tl[u] ELSE <<>>
        IN  Result(ps, SetItem(tl, u, Append(logs, <<date_str, desc>>)),
                   Reply(u, "log", args, "ok", "Seance enregistree", <<desc>>, <<>>))

Min(a, b) == IF a < b THEN a ELSE b

Max(a, b) == IF a > b THEN a ELSE b

\* The most entries history shows (line 431).
HistoryMax == 20

\* The clamp without its max(1, ...).
ClampNbNoFloor(nb) == Min(nb, HistoryMax)

\* nb = max(1, min(nb, 20)) (line 431).
ClampNb(nb) == Max(1, Min(nb, HistoryMax))

\* seq[start:] of a Python list: a negative start counts from the end, and
\* both ends are clipped to the list.
PySliceFrom(seq, start) ==
    LET from == IF start < 0 THEN Max(Len(seq) + start, 0) ELSE Min(start, Len(seq))
    IN  SubSeq(seq, from + 1, Len(seq))

\* Lines 425-434.
history_command(ps, tl, u, nb) ==
    LET logs == IF u \in DOMAIN tl THEN tl[u] ELSE <<>>
    IN  IF logs = <<>>
        THEN Result(ps, tl, Reply(u, "history", <<nb>>, "info",
                                  "Aucun entrainement enregistre", <<>>, <<>>))
        ELSE LET recent == PySliceFrom(logs, 0 - ClampNb(nb))
                 lines == [i \in 1..Len(recent) |-> recent[i][2]]
             IN  Result(ps, tl, Reply(u, "history", <<nb>>, "ok",
                                      "Tes dernieres seances", lines, <<>>))

----------------------------------------------------------------------------
(* The state.                                                              *)

VARIABLES
    profiles,       \* user_id -> RunnerProfile (line 89)
    training_log,   \* user_id -> list of (date_iso, description) (line 92)
    today,          \* datetime.date.today(), as an index into Dates
    reply,          \* what the last handler to finish answered
    tasks,          \* the handler coroutines in flight, by slot
    base,           \* the maps when no handler was in flight last
    round,          \* the commands received since then, in order of arrival
    cIn,            \* codec run: the input text
    cStage,         \* codec run: how far the input has been taken
    cSecs,          \* codec run: parse_time_to_seconds(cIn)
    cText,          \* codec run: format_time of it
    cBack           \* codec run: parse_time_to_seconds of that text

vars == <<profiles, training_log, today, reply, tasks, base, round,
          cIn, cStage, cSecs, cText, cBack>>

----------------------------------------------------------------------------
(* The inputs.                                                             *)

\* ctx.author.id of the users who write to the bot.
Users == {1, 2}

\* The days the bot runs over, in order.
Dates == <<"2024-05-01", "2024-05-02">>

T_20_00 == <<"2", "0", ":", "0", "0">>

T_10_00 == <<"1", "0", ":", "0", "0">>

T_0_00 == <<"0", ":", "0", "0">>

T_patate == <<"p", "a", "t", "a", "t", "e">>

\* The arguments of the commands in Spec.
Set5kInputs == {T_20_00, T_0_00, T_patate}

SetVmaInputs == {<<16, 1>>}

SetMaxHrInputs == {180}

PredictInputs == {<<10, 1>>, <<0, 1>>}

LogDistances == {<<5, 1>>}

LogTimes == {T_20_00, T_patate}

\* history without an argument: nb = 5.
HistoryDefault == {5}

\* The arguments of the profile commands in SpecProfile.
Set5kWide == {T_20_00, T_10_00, T_0_00, T_patate}

SetVmaWide == {<<16, 1>>, <<0, 1>>, <<0 - 10, 1>>}

SetMaxHrWide == {180, 300}

\* The arguments of history in SpecLog.
HistoryInputs == {0, 2, 25}

\* The most entries the logs hold together in Spec.
MaxLogSpec == 1

\* The most entries all the logs hold together in SpecLog.
MaxLogTotal == 21

LogLen(u) == IF u \in DOMAIN training_log THEN Len(training_log[u]) ELSE 0

RECURSIVE SumLen(_, _)
SumLen(tl, us) ==
    IF us = {} THEN 0
    ELSE LET u == CHOOSE x \in us : TRUE
         IN  Len(tl[u]) + SumLen(tl, us \ {u})

LogTotal == SumLen(training_log, DOMAIN training_log)

NoReply == Reply(0, "none", <<>>, "none", "", <<>>, <<>>)

EmptyDict == <<>>

IdleTask == [pc |-> "idle"]

Init ==
    /\ profiles = EmptyDict
    /\ training_log = EmptyDict
    /\ today = 1
    /\ reply = NoReply
    /\ tasks = [k \in {1, 2} |-> IdleTask]
    /\ base = <<EmptyDict, EmptyDict>>
    /\ round = <<>>
    /\ cIn = <<>>
    /\ cStage = "off"
    /\ cSecs = None
    /\ cText = None
    /\ cBack = None

----------------------------------------------------------------------------
(* One command at a time: a handler runs from its first line to its reply.  *)

Set5k(u, temps_5k) ==
    LET r == set5k_command(profiles, training_log, u, temps_5k)
    IN  /\ profiles' = r.profiles
        /\ training_log' = r.training_log
        /\ reply' = r.reply
        /\ UNCHANGED <<today, tasks, base, round, cIn, cStage, cSecs, cText, cBack>>

SetVma(u, vma) ==
    LET r == setvma_command(profiles, training_log, u, vma)
    IN  /\ profiles' = r.profiles
        /\ training_log' = r.training_log
        /\ reply' = r.reply
        /\ UNCHANGED <<today, tasks, base, round, cIn, cStage, cSecs, cText, cBack>>

SetMaxHr(u, max_hr) ==
    LET r == setmaxhr_command(profiles, training_log, u, max_hr)
    IN  /\ profiles' = r.profiles
        /\ training_log' = r.training_log
        /\ reply' = r.reply
        /\ UNCHANGED <<today, tasks, base, round, cIn, cStage, cSecs, cText, cBack>>

Profil(u) ==
    LET r == profil_command(profiles, training_log, u)
    IN  /\ profiles' = r.profiles
        /\ training_log' = r.training_log
        /\ reply' = r.reply
        /\ UNCHANGED <<today, tasks, base, round, cIn, cStage, cSecs, cText, cBack>>

Vo2(u) ==
    LET r == vo2_command(profiles, training_log, u)
    IN  /\ profiles' = r.profiles
        /\ training_log' = r.training_log
        /\ reply' = r.reply
        /\ UNCHANGED <<today, tasks, base, round, cIn, cStage, cSecs, cText, cBack>>

Vma(u) ==
    LET r == vma_command(profiles, training_log, u)
    IN  /\ profiles' = r.profiles
        /\ training_log' = r.training_log
        /\ reply' = r.reply
        /\ UNCHANGED <<today, tasks, base, round, cIn, cStage, cSecs, cText, cBack>>

Paces(u) ==
    LET r == paces_command(profiles, training_log, u)
    IN  /\ profiles' = r.profiles
        /\ training_log' = r.training_log
        /\ reply' = r.reply
        /\ UNCHANGED <<today, tasks, base, round, cIn, cStage, cSecs, cText, cBack>>

Predict(u, distance_km) ==
    LET r == predict_command(profiles, training_log, u, distance_km)
    IN  /\ profiles' = r.profiles
        /\ training_log' = r.training_log
        /\ reply' = r.reply
        /\ UNCHANGED <<today, tasks, base, round, cIn, cStage, cSecs, cText, cBack>>

ZonesHr(u) ==
    LET r == zoneshr_command(profiles, training_log, u)
    IN  /\ profiles' = r.profiles
        /\ training_log' = r.training_log
        /\ reply' = r.reply
        /\ UNCHANGED <<today, tasks, base, round, cIn, cStage, cSecs, cText, cBack>>

ZonesPace(u) ==
    LET r == zonespace_command(profiles, training_log, u)
    IN  /\ profiles' = r.profiles
        /\ training_log' = r.training_log
        /\ reply' = r.reply
        /\ UNCHANGED <<today, tasks, base, round, cIn, cStage, cSecs, cText, cBack>>

\* The model stops logging once the logs hold cap entries together.
Log(u, distance_km, temps, cap) ==
    LET r == log_command(profiles, training_log, u, distance_km, temps,
                         Dates[today])
    IN  /\ LogTotal < cap
        /\ profiles' = r.profiles
        /\ training_log' = r.training_log
        /\ reply' = r.reply
        /\ UNCHANGED <<today, tasks, base, round, cIn, cStage, cSecs, cText, cBack>>

History(u, nb) ==
    LET r == history_command(profiles, training_log, u, nb)
    IN  /\ profiles' = r.profiles
        /\ training_log' = r.training_log
        /\ reply' = r.reply
        /\ UNCHANGED <<today, tasks, base, round, cIn, cStage, cSecs, cText, cBack>>

\* Midnight passes.
NextDay ==
    /\ today < Len(Dates)
    /\ today' = today + 1
    /\ UNCHANGED <<profiles, training_log, reply, tasks, base, round,
                   cIn, cStage, cSecs, cText, cBack>>

Next ==
    \/ \E u \in Users, s \in Set5kInputs : Set5k(u, s)
    \/ \E u \in Users, v \in SetVmaInputs : SetVma(u, v)
    \/ \E u \in Users, h \in SetMaxHrInputs : SetMaxHr(u, h)
    \/ \E u \in Users : Profil(u)
    \/ \E u \in Users : Vo2(u)
    \/ \E u \in Users : Vma(u)
    \/ \E u \in Users : Paces(u)
    \/ \E u \in Users, d \in PredictInputs : Predict(u, d)
    \/ \E u \in Users : ZonesHr(u)
    \/ \E u \in Users : ZonesPace(u)
    \/ \E u \in Users, d \in LogDistances, s \in LogTimes :
           Log(u, d, s, MaxLogSpec)
    \/ \E u \in Users, nb \in HistoryDefault : History(u, nb)

Spec == Init /\ [][Next]_vars

\* The user of the profile specification.
ProfileUsers == {1}

\* The commands that write or read a profile, one user, over wider arguments.
NextProfile ==
    \/ \E u \in ProfileUsers, s \in Set5kWide : Set5k(u, s)
    \/ \E u \in ProfileUsers, v \in SetVmaWide : SetVma(u, v)
    \/ \E u \in ProfileUsers, h \in SetMaxHrWide : SetMaxHr(u, h)
    \/ \E u \in ProfileUsers : Profil(u)
    \/ \E u \in ProfileUsers : Vo2(u)
    \/ \E u \in ProfileUsers : Vma(u)
    \/ \E u \in ProfileUsers : Paces(u)
    \/ \E u \in ProfileUsers : ZonesHr(u)
    \/ \E u \in ProfileUsers : ZonesPace(u)

SpecProfile == Init /\ [][NextProfile]_vars

\* The log commands, over many entries and two days.
NextLog ==
    \/ \E u \in Users, d \in LogDistances, s \in LogTimes :
           Log(u, d, s, MaxLogTotal)
    \/ \E u \in Users, nb \in HistoryInputs : History(u, nb)
    \/ NextDay

SpecLog == Init /\ [][NextLog]_vars


----------------------------------------------------------------------------
(* Handlers as coroutines. discord.py runs each command in a task of one    *)
(* event loop: a task runs alone from one await to the next. Every handler  *)
(* has a single await, the ctx.send of its reply, after its last access to  *)
(* the maps; a handler that raises ends without sending.                    *)

Slots == {1, 2}

Request(u, cmd, args) == [user |-> u, cmd |-> cmd, args |-> args]

\* The user whose commands overlap in SpecTasks.
TaskUsers == {1}

\* The commands that write to the maps, as they arrive in SpecTasks.
TaskRequests ==
    {Request(u, "set5k", <<s>>) : u \in TaskUsers, s \in {T_20_00, T_0_00}}
    \cup {Request(u, "setvma", <<v>>) : u \in TaskUsers, v \in SetVmaInputs}
    \cup {Request(u, "setmaxhr", <<h>>) : u \in TaskUsers, h \in SetMaxHrInputs}
    \cup {Request(u, "vma", <<>>) : u \in TaskUsers}
    \cup {Request(u, "log", <<d, T_20_00>>) : u \in TaskUsers, d \in LogDistances}

\* The most commands that arrive between two moments with no handler in flight.
MaxRound == 2

\* The most entries a user's log holds in SpecTasks.
MaxLogTasks == 2

\* The command's handler, called on the maps ps and tl.
Dispatch(req, ps, tl, date_str) ==
    CASE req.cmd = "set5k" -> set5k_command(ps, tl, req.user, req.args[1])
      [] req.cmd = "setvma" -> setvma_command(ps, tl, req.user, req.args[1])
      [] req.cmd = "setmaxhr" -> setmaxhr_command(ps, tl, req.user, req.args[1])
      [] req.cmd = "vma" -> vma_command(ps, tl, req.user)
      [] req.cmd = "log" ->
             log_command(ps, tl, req.user, req.args[1], req.args[2], date_str)

Quiescent == \A k \in Slots : tasks[k].pc = "idle"

\* The log commands of user u received and not yet run.
PendingLogs(u) ==
    Cardinality({k \in Slots : /\ tasks[k].pc = "start"
                               /\ tasks[k].req.user = u
                               /\ tasks[k].req.cmd = "log"})

\* A message arrives and its handler task is created; it has not run yet.
Receive(k, req) ==
    /\ tasks[k].pc = "idle"
    /\ Quiescent \/ Len(round) < MaxRound
    /\ req.cmd = "log" => LogLen(req.user) + PendingLogs(req.user) < MaxLogTasks
    /\ tasks' = [tasks EXCEPT ![k] =
                     [pc |-> "start", req |-> req, seen |-> <<profiles, training_log>>]]
    /\ base' = IF Quiescent THEN <<profiles, training_log>> ELSE base
    /\ round' = IF Quiescent THEN <<req>> ELSE Append(round, req)
    /\ UNCHANGED <<profiles, training_log, today, reply,
                   cIn, cStage, cSecs, cText, cBack>>

\* The maps as they were when the task was created: what a handler would
\* write back from if it had read them before an await.
HandlerInputAtDispatch(k) == tasks[k].seen

\* The maps the handler of slot k reads and writes back: the maps as they are
\* when it runs, since no await separates its read from its write.
HandlerInput(k) == <<profiles, training_log>>

\* The task runs from the handler's first line to its await (or its raise).
RunBody(k) ==
    /\ tasks[k].pc = "start"
    /\ LET in == HandlerInput(k)
           r == Dispatch(tasks[k].req, in[1], in[2], Dates[today])
       IN  /\ profiles' = r.profiles
           /\ training_log' = r.training_log
           /\ tasks' = [tasks EXCEPT ![k] =
                            [pc |-> "send", req |-> tasks[k].req, out |-> r.reply]]
    /\ UNCHANGED <<today, reply, base, round, cIn, cStage, cSecs, cText, cBack>>

\* The send completes (or the exception is reported) and the task ends.
Finish(k) ==
    /\ tasks[k].pc = "send"
    /\ reply' = tasks[k].out
    /\ tasks' = [tasks EXCEPT ![k] = IdleTask]
    /\ UNCHANGED <<profiles, training_log, today, base, round,
                   cIn, cStage, cSecs, cText, cBack>>

NextTasks ==
    \/ \E k \in Slots, req \in TaskRequests : Receive(k, req)
    \/ \E k \in Slots : RunBody(k)
    \/ \E k \in Slots : Finish(k)

SpecTasks == Init /\ [][NextTasks]_vars

----------------------------------------------------------------------------
(* The codec alone: parse, format, parse again.                            *)

\* The most colon-separated groups of an input.
MaxGroups == 4

\* The texts a group of an input is drawn from.
Groups ==
    {<<"0">>, <<"0", "0">>, <<"1">>, <<"0", "7">>, <<" ", "5">>, <<"5", "9">>,
     <<"6", "0">>, <<"4", "8">>, <<"-", "1">>, <<"x">>}

RECURSIVE JoinColon(_)
JoinColon(gs) ==
    IF Len(gs) = 1 THEN gs[1] ELSE gs[1] \o <<":">> \o JoinColon(Tail(gs))

TimeInputs ==
    {JoinColon(gs) : gs \in UNION {[1..n -> Groups] : n \in 1..MaxGroups}}

InitCodec ==
    /\ profiles = EmptyDict
    /\ training_log = EmptyDict
    /\ today = 1
    /\ reply = NoReply
    /\ tasks = [k \in Slots |-> IdleTask]
    /\ base = <<EmptyDict, EmptyDict>>
    /\ round = <<>>
    /\ cIn \in TimeInputs
    /\ cStage = "input"
    /\ cSecs = None
    /\ cText = None
    /\ cBack = None

CodecParse ==
    /\ cStage = "input"
    /\ cSecs' = Some(parse_time_to_seconds(cIn))
    /\ cStage' = "parsed"
    /\ UNCHANGED <<profiles, training_log, today, reply, tasks, base, round,
                   cIn, cText, cBack>>

CodecFormat ==
    /\ cStage = "parsed"
    /\ cSecs[1].ok
    /\ cText' = Some(format_time(cSecs[1].val))
    /\ cStage' = "formatted"
    /\ UNCHANGED <<profiles, training_log, today, reply, tasks, base, round,
                   cIn, cSecs, cBack>>

CodecReparse ==
    /\ cStage = "formatted"
    /\ cBack' = Some(parse_time_to_seconds(cText[1]))
    /\ cStage' = "reparsed"
    /\ UNCHANGED <<profiles, training_log, today, reply, tasks, base, round,
                   cIn, cSecs, cText>>

NextCodec == CodecParse \/ CodecFormat \/ CodecReparse

SpecCodec == InitCodec /\ [][NextCodec]_vars

----------------------------------------------------------------------------
(* Properties.                                                             *)

Maps == <<profiles, training_log>>

\* The maps after the commands of reqs have run one after the other, each to
\* its end, from the maps m.
RECURSIVE RunSerial(_, _)
RunSerial(m, reqs) ==
    IF reqs = <<>> THEN m
    ELSE LET r == Dispatch(Head(reqs), m[1], m[2], Dates[today])
         IN  RunSerial(<<r.profiles, r.training_log>>, Tail(reqs))

\* Every order of the commands of reqs.
Orders(reqs) ==
    {[i \in 1..Len(reqs) |-> reqs[p[i]]] : p \in Permutations(1..Len(reqs))}

\* C2: handlers overlap only at their awaits, and every handler's read and
\* write of the maps lie in one run between awaits, so no update is lost:
\* whenever no handler is in flight, the maps are the ones some serial order
\* of the commands received since the last such moment produces.
C2_Serializable ==
    Quiescent => \E o \in Orders(round) : Maps = RunSerial(base, o)

\* Two commands of one user overlapped (the second arrived before the first
\* had run), both have ended, and the two serial orders differ, so the maps
\* single out one of them.
C2_Witness ==
    /\ Quiescent
    /\ Len(round) = 2
    /\ round[1].user = round[2].user
    /\ RunSerial(base, round) # RunSerial(base, <<round[2], round[1]>>)
    /\ base # <<EmptyDict, EmptyDict>>

\* The seconds a set5k or log reply's time argument parses to.
ParsedArg(r) == parse_time_to_seconds(r.args[IF r.cmd = "log" THEN 2 ELSE 1])

\* C1: after every successful set5k the profile holds the new 5 km time and,
\* as its MAS, the estimate from that time, whatever MAS it held before.
\* (Stated for the times the estimate is defined for, that is, not 0.)
C1_Set5kRecomputesMas ==
    (reply.cmd = "set5k" /\ reply.status = "ok"
         /\ estimate_vma_from_5k(ParsedArg(reply).val).ok) =>
        LET t == ParsedArg(reply).val
            prof == profiles[reply.user]
        IN  /\ prof.five_k_time = Some(t)
            /\ prof.vma = Some(estimate_vma_from_5k(t).val)

\* C3: a set5k whose time is below 750 s does not succeed and leaves the
\* profiles as they were, and no stored 5 km time is below 750 s.
C3_FloorOn5k ==
    [][/\ (reply'.cmd = "set5k" /\ ParsedArg(reply').ok
              /\ ParsedArg(reply').val < 750)
           => (reply'.status # "ok" /\ profiles' = profiles)
       /\ \A u \in DOMAIN profiles' :
              profiles'[u].five_k_time # None => profiles'[u].five_k_time[1] >= 750
      ]_vars

\* C4: in every reachable state every profile's MAS is absent or lies between
\* 8 and 25 km/h.
C4_MasInRange ==
    \A u \in DOMAIN profiles :
        \/ profiles[u].vma = None
        \/ /\ RatLe(<<8, 1>>, profiles[u].vma[1])
           /\ RatLe(profiles[u].vma[1], <<25, 1>>)

\* C5: setmaxhr with a value outside 100..250 is answered with an error and
\* leaves the profiles as they were; with a value inside it succeeds and the
\* profile then read for that user shows that value.
C5_MaxHrRange ==
    [][reply'.cmd = "setmaxhr" =>
           LET h == reply'.args[1]
               read == profil_command(profiles', training_log', reply'.user).reply
           IN  IF h \in 100..250
               THEN /\ reply'.status = "ok"
                    /\ read.status = "ok"
                    /\ read.data.max_hr = Some(h)
               ELSE /\ reply'.status = "error"
                    /\ profiles' = profiles
      ]_vars

\* C9: pace_from_speed_kmh is only ever called with a strictly positive
\* speed, and paces and zonespace never raise nor show a pace that is not
\* positive.
C9_PacePositive ==
    /\ \A i \in 1..Len(reply.calls) :
           reply.calls[i].fn = "pace_from_speed_kmh" => RatPos(reply.calls[i].arg)
    /\ reply.cmd \in {"paces", "zonespace"} =>
           /\ reply.status # "raised"
           /\ reply.status = "ok" =>
                  \A i \in 1..Len(reply.data) : RatPos(reply.data[i])

\* C10: a set5k that does not complete successfully (its time is rejected by
\* the parser, or the MAS estimate raises) leaves the profiles as they were.
C10_FailedSet5kNoChange ==
    [][(reply'.cmd = "set5k" /\ reply'.status # "ok") => profiles' = profiles]_vars

\* The commands that compute from the profile, and the field each needs.
ComputeCmds == {"vo2", "predict", "paces", "zonespace", "zoneshr"}

\* The field of prof that command cmd needs is not set.
FieldUnset(cmd, prof) ==
    CASE cmd \in {"vo2", "predict"} -> prof.five_k_time = None
      [] cmd \in {"paces", "zonespace"} -> prof.vma = None
      [] cmd = "zoneshr" -> prof.max_hr = None

\* C6: a computation command issued when its user has no profile, or a
\* profile whose required field is not set, is answered with an error, calls
\* no calculation, and leaves profiles and training_log as they were.
C6_MissingPrerequisite ==
    [][(/\ reply'.cmd \in ComputeCmds
        /\ \/ reply'.user \notin DOMAIN profiles
           \/ FieldUnset(reply'.cmd, profiles[reply'.user]))
       => /\ reply'.status = "error"
          /\ reply'.calls = <<>>
          /\ profiles' = profiles
          /\ training_log' = training_log
      ]_vars

\* A user with a profile (a max heart rate, no MAS) and a logged session asked
\* for paces and was answered with an error.
C6_Witness ==
    /\ reply.cmd = "paces"
    /\ reply.status = "error"
    /\ reply.user \in DOMAIN profiles
    /\ profiles[reply.user].vma = None
    /\ profiles[reply.user].max_hr # None
    /\ LogLen(reply.user) > 0

\* The log of user u in the map tl (no entry: the empty list).
LogOf(tl, u) == IF u \in DOMAIN tl THEN tl[u] ELSE <<>>

\* The descriptions of the last c entries of logs, oldest first (all of them
\* when there are fewer than c).
LastDescs(logs, c) ==
    LET n == Min(c, Len(logs))
    IN  [i \in 1..n |-> logs[Len(logs) - n + i][2]]

\* history(nb) shows the last min(max(nb, 1), 20) entries of the user's log.
HistoryShowsLast ==
    reply.cmd = "history" =>
        LET logs == LogOf(training_log, reply.user)
            c == Min(Max(reply.args[1], 1), 20)
        IN  IF logs = <<>> THEN reply.status = "info"
            ELSE reply.status = "ok" /\ reply.data = LastDescs(logs, c)

\* A successful log appends one entry, the one it answers with, to its
\* user's log; nothing else changes any log.
LogAppendOnly ==
    IF reply'.cmd = "log" /\ reply'.status = "ok" /\ training_log' # training_log
    THEN /\ DOMAIN training_log' = DOMAIN training_log \cup {reply'.user}
         /\ \A u \in DOMAIN training_log' :
                training_log'[u] =
                    IF u = reply'.user
                    THEN Append(LogOf(training_log, u),
                                <<reply'.data[1].date, reply'.data[1]>>)
                    ELSE training_log[u]
    ELSE training_log' = training_log

\* C7: history(nb) answers with the last min(max(nb, 1), 20) entries of its
\* user's log, oldest first, and the log of a user is the sequence of that
\* user's successful log commands: each appends its entry, and no command
\* removes, reorders or rewrites an entry.
C7_History == [][LogAppendOnly]_vars /\ []HistoryShowsLast

\* A user with 21 entries logged on two days asked for 25 and was shown the
\* last 20; the other user has entries too.
C7_Witness ==
    /\ reply.cmd = "history"
    /\ reply.args[1] = 25
    /\ LogLen(reply.user) = 21
    /\ Len(reply.data) = 20
    /\ reply.data[1].date # reply.data[20].date
    /\ training_log[reply.user][1][1] = training_log[reply.user][2][1]

\* The text is n in decimal, without sign or padding.
IsPlainNumber(text, n) == n >= 0 /\ text = NatToStr(n)

\* The text is two decimal digits of a number below 60.
IsTwoDigitsBelow60(text) ==
    /\ Len(text) = 2
    /\ IsDigit(text[1]) /\ IsDigit(text[2])
    /\ DigitsValue(text) < 60

\* C8: for an input that parses to a total of 60 to 172800 seconds, parsing
\* the formatted total gives the total back, and the formatted text is
\* h:mm:ss when there are hours and m:ss when not, mm and ss two digits below
\* 60.
C8_RoundTrip ==
    (cStage = "reparsed" /\ cSecs[1].val >= 60 /\ cSecs[1].val <= 172800) =>
        LET total == cSecs[1].val
            parts == Split(cText[1], ":")
        IN  /\ cBack[1].ok
            /\ cBack[1].val = total
            /\ IF total >= 3600
               THEN /\ Len(parts) = 3
                    /\ IsPlainNumber(parts[1], total \div 3600)
                    /\ IsTwoDigitsBelow60(parts[2])
                    /\ IsTwoDigitsBelow60(parts[3])
               ELSE /\ Len(parts) = 2
                    /\ IsPlainNumber(parts[1], total \div 60)
                    /\ IsTwoDigitsBelow60(parts[2])

\* The mm:ss input 60:07 (3607 s) was formatted with hours, as 1:00:07, and
\* parsed back to 3607.
C8_Witness ==
    /\ cStage = "reparsed"
    /\ cIn = <<"6", "0", ":", "0", "7">>
    /\ cText[1] = <<"1", ":", "0", "0", ":", "0", "7">>
    /\ cBack[1].val = 3607

=============================================================================
